---- MODULE Spec2Model ----
(***************************************************************************)
(* A model of src/main.rs: an actix-web service whose POST /something      *)
(* handler chains three validate / POST-to-httpbin / read-body / parse     *)
(* steps (step_x, create_something), and whose GET handlers return fixed   *)
(* JSON documents (todays_shami_momo, all_teams, teams_j1, teams_j2).      *)
(*                                                                         *)
(* Strings are represented by a character and a count: [ch, len] stands    *)
(* for the string made of len copies of ch. JSON text is a sequence of     *)
(* members [key, val]; the httpbin response body is a sequence of three    *)
(* parts (head, json, tail) that the transport delivers in chunks.         *)
(***************************************************************************)
EXTENDS Integers, Sequences, FiniteSets, TLC

\* ------------------------------------------------------------- bounds
\* Number of POST /something requests served concurrently.
NumRequests == 2
\* Largest number of body parts the transport delivers in one chunk.
MaxChunk == 2
\* Largest number of GET requests recorded in getLog.
MaxGets == 4

\* -------------------------------------------------- program constants
\* #[validate(length(min = "1", max = "1000000"))] id
IdMin == 1
IdMax == 1000000
\* #[validate(length(min = "1", max = "100"))] name
NameMin == 1
NameMax == 100
\* create_something calls step_x three times.
ChainSteps == 3
\* HttpResponse::Ok()
StatusOk == 200
\* ErrorBadRequest
StatusBadRequest == 400
\* Status chosen by the ResponseError impl of an actix error type, which is
\* not part of this repository: left unspecified.
StatusUnspecified == 0

Requests == 1..NumRequests

VARIABLES
    pc,       \* request -> position in create_something / step_x
    step,     \* request -> which of the three step_x calls is running
    initial,  \* request -> the SomeData deserialized from the request body
    data,     \* request -> the SomeData handed to the current step_x call
    sent,     \* request -> JSON bodies of the outbound POSTs issued, in order
    resps,    \* request -> what each outbound call produced, in order
    inflight, \* request -> outbound calls issued and not yet finished
    wire,     \* request -> body parts of the current response not yet read
    body,     \* request -> the BytesMut buffer of the current step_x call
    parsed,   \* request -> buffers handed to serde_json::from_slice, in order
    outcome,  \* request -> what create_something produced for the caller
    checked,  \* request -> each data.validate() call: its input and result
    getLog    \* responses of the GET handlers, in order

chainVars == <<pc, step, initial, data, sent, resps, inflight, wire, body,
               parsed, outcome, checked>>
vars == <<pc, step, initial, data, sent, resps, inflight, wire, body,
          parsed, outcome, checked, getLog>>

\* ------------------------------------------------------------ strings
Str(c, n) == [ch |-> c, len |-> n]
Length(s) == s.len

\* ----------------------------------------------------------- SomeData
SomeData(i, n) == [id |-> i, name |-> n]

\* Mutant of LengthOk: the upper bound is not checked.
MutLengthOkNoMax(s, lo, hi) == Length(s) >= lo
\* validator's length(min, max) on one field.
LengthOk(s, lo, hi) == Length(s) >= lo /\ Length(s) <= hi

\* data.validate(): every field's rule holds.
Validate(d) == LengthOk(d.id, IdMin, IdMax) /\ LengthOk(d.name, NameMin, NameMax)

\* serde_json serialization of SomeData: the members in declaration order.
ToJson(d) == << [key |-> "id", val |-> d.id], [key |-> "name", val |-> d.name] >>

\* Whether a JSON value deserializes as SomeData: an object with a member
\* "id" and a member "name" and no other.
IsSomeDataJson(j) ==
    /\ Len(j) = 2
    /\ {j[1].key, j[2].key} = {"id", "name"}

\* serde_json deserialization of SomeData (for a value that deserializes).
FromJson(j) ==
    LET i == CHOOSE k \in 1..2 : j[k].key = "id"
        n == CHOOSE k \in 1..2 : j[k].key = "name"
    IN  SomeData(j[i].val, j[n].val)

\* ---------------------------------------------------- HttpBinResponse
\* The parts of an httpbin response body, in the order httpbin writes them:
\* the members before json, the json member, the members after it.
HeadPart == [part |-> "head", val |-> <<>>]
JsonPart(j) == [part |-> "json", val |-> j]
TailPart == [part |-> "tail", val |-> <<>>]

\* Whether a buffer deserializes as HttpBinResponse.
IsEnvelope(buf) ==
    /\ Len(buf) = 3
    /\ buf[1] = HeadPart
    /\ buf[2].part = "json"
    /\ buf[3] = TailPart
    /\ IsSomeDataJson(buf[2].val)

\* body.json of a buffer that deserializes.
EnvelopeJson(buf) == FromJson(buf[2].val)

\* ------------------------------------------------------- environment
\* The request bodies a client may post: each field empty, at its smallest
\* and largest valid length, and one longer.
IdInputs == { Str("a", n) : n \in {IdMin - 1, IdMin, IdMax, IdMax + 1} }
NameInputs == { Str("b", n) : n \in {NameMin - 1, NameMin, NameMax, NameMax + 1} }
InitPayloads == { SomeData(i, n) : i \in IdInputs, n \in NameInputs }
\* The request bodies posted when several requests are served at once.
ConcPayloads == { SomeData(Str("a", IdMax), Str("b", NameMax)),
                  SomeData(Str("a", IdMin - 1), Str("b", NameMin)) }
\* The payload slot of a connection on which no request arrives.
NoData == SomeData(Str("a", 0), Str("b", 0))

\* What httpbin.org/post may answer to a POST whose body is the JSON j: the
\* body it received (a faithful echo), the same with the two values
\* exchanged (an unfaithful echo), json: null (valid JSON but no
\* HttpBinResponse), a body cut short, or an empty body.
EchoBody(j) == << HeadPart, JsonPart(j), TailPart >>
Exchanged(j) == << [key |-> "id", val |-> j[2].val], [key |-> "name", val |-> j[1].val] >>
NullBody == << HeadPart, JsonPart(<<>>), TailPart >>
CutBody(j) == << HeadPart, JsonPart(j) >>
RemoteBodies(j) == { EchoBody(j), EchoBody(Exchanged(j)), NullBody, CutBody(j), <<>> }

NoOutcome == [kind |-> "none", status |-> StatusUnspecified, body |-> <<>>]
Failure(k, s) == [kind |-> k, status |-> s, body |-> <<>>]

\* The state in which the connections in active each carry a request whose
\* body is drawn from payloads, and the others carry none.
InitWith(active, payloads) ==
    /\ pc = [r \in Requests |-> IF r \in active THEN "validate" ELSE "idle"]
    /\ step = [r \in Requests |-> 1]
    /\ \E f \in [active -> payloads] :
           initial = [r \in Requests |-> IF r \in active THEN f[r] ELSE NoData]
    /\ data = initial
    /\ sent = [r \in Requests |-> <<>>]
    /\ resps = [r \in Requests |-> <<>>]
    /\ inflight = [r \in Requests |-> 0]
    /\ wire = [r \in Requests |-> <<>>]
    /\ body = [r \in Requests |-> <<>>]
    /\ parsed = [r \in Requests |-> <<>>]
    /\ outcome = [r \in Requests |-> NoOutcome]
    /\ checked = [r \in Requests |-> <<>>]
    /\ getLog = <<>>

Init == InitWith(Requests, InitPayloads)
\* One request, served alone, with every input.
ChainInit == InitWith({1}, InitPayloads)
\* Every connection carries a request.
ConcInit == InitWith(Requests, ConcPayloads)
\* No POST /something request at all.
StaticInit == InitWith({}, InitPayloads)

\* ---------------------------------------------------- step_x, by await
Set(f, r, v) == [f EXCEPT ![r] = v]
Push(f, r, v) == [f EXCEPT ![r] = Append(f[r], v)]

\* Mutant of ExtendFromSlice: the chunk is put before what was read.
MutExtendPrepend(buf, chunk) == chunk \o buf
\* body.extend_from_slice(&chunk)
ExtendFromSlice(buf, chunk) == buf \o chunk

\* Mutants of Continue: the chain ends after two steps; the next step gets
\* the payload the previous step was given; the payload is kept in a slot
\* shared by all requests.
MutContinueTwoSteps(r, d) ==
    /\ data' = Set(data, r, d)
    /\ IF step[r] < ChainSteps - 1
       THEN /\ step' = Set(step, r, step[r] + 1)
            /\ pc' = Set(pc, r, "validate")
            /\ UNCHANGED outcome
       ELSE /\ pc' = Set(pc, r, "done")
            /\ outcome' = Set(outcome, r,
                   [kind |-> "Ok", status |-> StatusOk, body |-> ToJson(d)])
            /\ UNCHANGED step
MutContinueStale(r, d) ==
    /\ UNCHANGED data
    /\ IF step[r] < ChainSteps
       THEN /\ step' = Set(step, r, step[r] + 1)
            /\ pc' = Set(pc, r, "validate")
            /\ UNCHANGED outcome
       ELSE /\ pc' = Set(pc, r, "done")
            /\ outcome' = Set(outcome, r,
                   [kind |-> "Ok", status |-> StatusOk, body |-> ToJson(data[r])])
            /\ UNCHANGED step
MutContinueShared(r, d) ==
    /\ data' = [q \in Requests |-> IF pc[q] = "idle" THEN data[q] ELSE d]
    /\ IF step[r] < ChainSteps
       THEN /\ step' = Set(step, r, step[r] + 1)
            /\ pc' = Set(pc, r, "validate")
            /\ UNCHANGED outcome
       ELSE /\ pc' = Set(pc, r, "done")
            /\ outcome' = Set(outcome, r,
                   [kind |-> "Ok", status |-> StatusOk, body |-> ToJson(d)])
            /\ UNCHANGED step

\* What create_something does with the SomeData d that step_x returned:
\* hand it to the next step_x, or after the third answer 200 with its JSON.
Continue(r, d) ==
    /\ data' = Set(data, r, d)
    /\ IF step[r] < ChainSteps
       THEN /\ step' = Set(step, r, step[r] + 1)
            /\ pc' = Set(pc, r, "validate")
            /\ UNCHANGED outcome
       ELSE /\ pc' = Set(pc, r, "done")
            /\ outcome' = Set(outcome, r,
                   [kind |-> "Ok", status |-> StatusOk, body |-> ToJson(d)])
            /\ UNCHANGED step

\* Mutant of Begin: the POST is issued without validating first.
MutBeginNoValidate(r) ==
    /\ pc[r] = "validate"
    /\ checked' = checked
    /\ pc' = Set(pc, r, "send")
    /\ sent' = Push(sent, r, ToJson(data[r]))
    /\ inflight' = Set(inflight, r, inflight[r] + 1)
    /\ UNCHANGED <<outcome, step, initial, data, resps, wire, body, parsed, getLog>>

\* step_x up to its first await: data.validate().map_err(ErrorBadRequest)?,
\* then client.post(..).send_json(&data) issues the POST.
Begin(r) ==
    /\ pc[r] = "validate"
    /\ checked' = Push(checked, r, [input |-> data[r], ok |-> Validate(data[r])])
    /\ IF Validate(data[r])
       THEN /\ pc' = Set(pc, r, "send")
            /\ sent' = Push(sent, r, ToJson(data[r]))
            /\ inflight' = Set(inflight, r, inflight[r] + 1)
            /\ UNCHANGED outcome
       ELSE /\ pc' = Set(pc, r, "error")
            /\ outcome' = Set(outcome, r, Failure("ValidationError", StatusBadRequest))
            /\ UNCHANGED <<sent, inflight>>
    /\ UNCHANGED <<step, initial, data, resps, wire, body, parsed, getLog>>

\* Mutant of SendFail: the error is swallowed and the step returns its input.
MutSendFailSwallowed(r) ==
    /\ pc[r] = "send"
    /\ resps' = Push(resps, r, [kind |-> "send_error", body |-> <<>>])
    /\ inflight' = Set(inflight, r, inflight[r] - 1)
    /\ Continue(r, data[r])
    /\ UNCHANGED <<initial, sent, wire, body, parsed, checked, getLog>>

\* send_json(..).await yields Err: .map_err(Error::from)? returns it.
SendFail(r) ==
    /\ pc[r] = "send"
    /\ pc' = Set(pc, r, "error")
    /\ resps' = Push(resps, r, [kind |-> "send_error", body |-> <<>>])
    /\ inflight' = Set(inflight, r, inflight[r] - 1)
    /\ outcome' = Set(outcome, r, Failure("SendRequestError", StatusUnspecified))
    /\ UNCHANGED <<step, initial, data, sent, wire, body, parsed, checked, getLog>>

\* send_json(..).await yields the response, whose body b is still to be
\* streamed; let mut body = BytesMut::new().
SendOk(r, b) ==
    /\ pc[r] = "send"
    /\ pc' = Set(pc, r, "read")
    /\ resps' = Push(resps, r, [kind |-> "body", body |-> b])
    /\ wire' = Set(wire, r, b)
    /\ body' = Set(body, r, <<>>)
    /\ UNCHANGED <<step, initial, data, sent, inflight, parsed, outcome, checked, getLog>>

\* res.next().await yields Some(Ok(chunk)): the next n parts of the body.
ReadChunk(r, n) ==
    /\ pc[r] = "read"
    /\ n <= Len(wire[r])
    /\ body' = Set(body, r, ExtendFromSlice(body[r], SubSeq(wire[r], 1, n)))
    /\ wire' = Set(wire, r, SubSeq(wire[r], n + 1, Len(wire[r])))
    /\ UNCHANGED <<pc, step, initial, data, sent, resps, inflight, parsed, outcome, checked, getLog>>

\* res.next().await yields Some(Err(e)): &chunk? returns the PayloadError;
\* the buffer is dropped unparsed.
ReadFail(r) ==
    /\ pc[r] = "read"
    /\ pc' = Set(pc, r, "error")
    /\ resps' = Set(resps, r, [resps[r] EXCEPT ![Len(resps[r])] =
                                  [kind |-> "chunk_error", body |-> <<>>]])
    /\ inflight' = Set(inflight, r, inflight[r] - 1)
    /\ wire' = Set(wire, r, <<>>)
    /\ body' = Set(body, r, <<>>)
    /\ outcome' = Set(outcome, r, Failure("PayloadError", StatusUnspecified))
    /\ UNCHANGED <<step, initial, data, sent, parsed, checked, getLog>>

\* res.next().await yields None: serde_json::from_slice(&body).unwrap()
\* panics on a buffer that is no HttpBinResponse, else step_x returns
\* Ok(body.json).
StreamEnd(r) ==
    /\ pc[r] = "read"
    /\ wire[r] = <<>>
    /\ parsed' = Push(parsed, r, body[r])
    /\ inflight' = Set(inflight, r, inflight[r] - 1)
    /\ body' = Set(body, r, <<>>)
    /\ IF IsEnvelope(body[r])
       THEN Continue(r, EnvelopeJson(body[r]))
       ELSE /\ pc' = Set(pc, r, "panicked")
            /\ outcome' = Set(outcome, r, Failure("panic", StatusUnspecified))
            /\ UNCHANGED <<step, data>>
    /\ UNCHANGED <<initial, sent, resps, wire, checked, getLog>>

\* One step of the task serving request r.
Step(r) ==
    \/ Begin(r)
    \/ SendFail(r)
    \/ /\ pc[r] = "send"
       /\ \E b \in RemoteBodies(sent[r][Len(sent[r])]) : SendOk(r, b)
    \/ \E n \in 1..MaxChunk : ReadChunk(r, n)
    \/ ReadFail(r)
    \/ StreamEnd(r)

ChainNext == \E r \in Requests : Step(r)

\* ------------------------------------------------------ GET handlers
\* The team names and areas are written in Latin letters here.
News(d, c) == [day |-> d, content |-> c]
Team(a, area, y) == [team_abbreviation |-> a, active_area |-> area, join_year |-> y]

NewsJson(n) == << [key |-> "day", val |-> n.day], [key |-> "content", val |-> n.content] >>
TeamJson(t) ==
    << [key |-> "team_abbreviation", val |-> t.team_abbreviation],
       [key |-> "active_area", val |-> t.active_area],
       [key |-> "join_year", val |-> t.join_year] >>
\* serde_json::to_string(&res) of a Vec<Team>
TeamsJson(ts) == [i \in 1..Len(ts) |-> TeamJson(ts[i])]

todays_shami_momo ==
    NewsJson(News("today", "Shamiko is going to go on date with Momo."))
\* Mutant of all_teams: its copy of the third record has another join_year.
MutAllTeamsDiverged ==
    TeamsJson(<< Team("Kashima", "Ibaraki", 1991),
                 Team("Urawa", "Saitama", 1991),
                 Team("Mito", "Ibaraki", 2001) >>)
all_teams ==
    TeamsJson(<< Team("Kashima", "Ibaraki", 1991),
                 Team("Urawa", "Saitama", 1991),
                 Team("Mito", "Ibaraki", 2000) >>)
teams_j1 ==
    TeamsJson(<< Team("Kashima", "Ibaraki", 1991),
                 Team("Urawa", "Saitama", 1991) >>)
teams_j2 ==
    TeamsJson(<< Team("Mito", "Ibaraki", 2000) >>)

\* The routes of App::new() that are served by GET, with their handlers.
Routes == {"/shami_momo", "/api/v0/teams", "/api/v0/teams/j1", "/api/v0/teams/j2"}
Handler(route) ==
    CASE route = "/shami_momo" -> todays_shami_momo
      [] route = "/api/v0/teams" -> all_teams
      [] route = "/api/v0/teams/j1" -> teams_j1
      [] route = "/api/v0/teams/j2" -> teams_j2

\* A GET on a route: HttpResponse::Ok() with the handler's JSON.
Get(route) ==
    /\ Len(getLog) < MaxGets
    /\ getLog' = Append(getLog, [route |-> route, status |-> StatusOk,
                                 body |-> Handler(route)])
    /\ UNCHANGED chainVars

StaticNext == \E route \in Routes : Get(route)

\* ------------------------------------------------------ specifications
Next == ChainNext \/ StaticNext

\* The whole service: every connection carries a POST /something request
\* with any input, and GET requests arrive in between.
Spec == Init /\ [][Next]_vars
\* Its behaviours with one POST /something request, served alone.
ChainSpec == ChainInit /\ [][ChainNext]_vars
\* Its behaviours with a POST /something request on every connection.
ConcSpec == ConcInit /\ [][ChainNext]_vars
\* Its behaviours with GET requests alone.
StaticSpec == StaticInit /\ [][StaticNext]_vars

\* ------------------------------------------------------------ claims
Active == { r \in Requests : pc[r] # "idle" }
Terminal(r) == pc[r] \in {"done", "error", "panicked"}
\* The bounds as the specification words them.
InBounds(d) ==
    /\ Length(d.id) >= 1 /\ Length(d.id) <= 1000000
    /\ Length(d.name) >= 1 /\ Length(d.name) <= 100
\* Every call of the request so far was answered by a faithful echo, read
\* without a failure.
Faithful(r) ==
    \A i \in DOMAIN resps[r] :
        resps[r][i] = [kind |-> "body", body |-> EchoBody(sent[r][i])]
FailedCall(x) == x.kind \in {"send_error", "chunk_error"}

\* C1: every data.validate() call succeeded if and only if the length of id
\* is in [1, 1000000] and the length of name is in [1, 100].
C1_ValidationIffInBounds ==
    \A r \in Requests : \A i \in DOMAIN checked[r] :
        checked[r][i].ok <=> InBounds(checked[r][i].input)
\* A request whose first payload, with id and name of the largest valid
\* lengths, passed and whose second, with a name too long, failed.
C1_Witness ==
    \E r \in Requests :
        /\ Len(checked[r]) = 2
        /\ checked[r][1].ok
        /\ Length(checked[r][1].input.id) = 1000000
        /\ Length(checked[r][1].input.name) = 100
        /\ ~checked[r][2].ok
        /\ Length(checked[r][2].input.name) > 100

\* C2: the i-th outbound POST carries the payload of the i-th validation,
\* which passed; and a request whose initial payload is invalid makes no
\* outbound call and, once handled, has answered 400.
C2_ValidatedBeforeSend ==
    \A r \in Requests :
        /\ \A i \in DOMAIN sent[r] :
              /\ i <= Len(checked[r])
              /\ checked[r][i].ok
              /\ InBounds(checked[r][i].input)
              /\ sent[r][i] = ToJson(checked[r][i].input)
        /\ (r \in Active /\ ~InBounds(initial[r])) =>
              /\ sent[r] = <<>>
              /\ pc[r] \in {"validate", "error"}
              /\ pc[r] = "error" =>
                    /\ outcome[r].kind = "ValidationError"
                    /\ outcome[r].status = 400
\* A request with an empty id that was answered 400.
C2_Witness ==
    \E r \in Requests :
        /\ Length(initial[r].id) = 0
        /\ Length(initial[r].name) = 1
        /\ pc[r] = "error"
        /\ outcome[r].status = 400

\* C3: a request with a valid initial payload whose calls were all answered
\* by a faithful echo has not failed, and once done it has issued exactly
\* three outbound calls and answered 200 with a payload equal to the
\* initial one.
C3_FaithfulEchoRoundTrip ==
    \A r \in Active :
        (InBounds(initial[r]) /\ Faithful(r)) =>
            /\ pc[r] \notin {"error", "panicked"}
            /\ Len(sent[r]) <= 3
            /\ pc[r] = "done" =>
                  /\ Len(sent[r]) = 3
                  /\ Len(resps[r]) = 3
                  /\ outcome[r].kind = "Ok"
                  /\ outcome[r].status = 200
                  /\ IsSomeDataJson(outcome[r].body)
                  /\ FromJson(outcome[r].body) = initial[r]
\* A request done after three faithful echoes.
C3_Witness ==
    \E r \in Active :
        /\ InBounds(initial[r])
        /\ Faithful(r)
        /\ pc[r] = "done"
        /\ Length(initial[r].id) = 1000000

\* C4: a failed outbound call is the request's last call, a failed
\* validation is its last validation and no call follows it; either way the
\* request has returned an error that carries no payload.
C4_ShortCircuit ==
    \A r \in Requests :
        /\ \A i \in DOMAIN resps[r] :
              FailedCall(resps[r][i]) =>
                  /\ i = Len(resps[r])
                  /\ Len(sent[r]) = i
                  /\ Len(checked[r]) = i
                  /\ pc[r] = "error"
                  /\ outcome[r].kind \in {"SendRequestError", "PayloadError"}
                  /\ outcome[r].body = <<>>
        /\ \A i \in DOMAIN checked[r] :
              ~checked[r][i].ok =>
                  /\ i = Len(checked[r])
                  /\ Len(sent[r]) = i - 1
                  /\ pc[r] = "error"
                  /\ outcome[r].kind = "ValidationError"
                  /\ outcome[r].body = <<>>
\* A request whose second outbound call failed.
C4_Witness ==
    \E r \in Requests :
        /\ Len(resps[r]) = 2
        /\ resps[r][2].kind = "send_error"
        /\ pc[r] = "error"

\* C5: a request that handed serde_json a buffer that is no HttpBinResponse
\* has returned an error value.
C5_MalformedBodyIsError ==
    \A r \in Requests : \A i \in DOMAIN parsed[r] :
        ~IsEnvelope(parsed[r][i]) =>
            /\ pc[r] = "error"
            /\ outcome[r].kind \notin {"none", "Ok", "panic"}

\* C6: a request never has two outbound calls in flight; before step k+1
\* is started (its validation, its POST) step k's response was read to the
\* end and parsed, and step k+1 validates and posts exactly the payload
\* step k returned.
C6_StrictlySequential ==
    \A r \in Requests :
        /\ inflight[r] <= 1
        /\ Len(checked[r]) <= Len(parsed[r]) + 1
        /\ Len(sent[r]) <= Len(checked[r])
        /\ (pc[r] = "validate") => inflight[r] = 0
        /\ \A k \in 1..(Len(checked[r]) - 1) :
              /\ resps[r][k].kind = "body"
              /\ parsed[r][k] = resps[r][k].body
              /\ IsEnvelope(parsed[r][k])
              /\ checked[r][k + 1].input = EnvelopeJson(parsed[r][k])
        /\ \A k \in 1..(Len(sent[r]) - 1) :
              sent[r][k + 1] = ToJson(EnvelopeJson(parsed[r][k]))
\* A request that issued its third call after an unfaithful echo.
C6_Witness ==
    \E r \in Requests :
        /\ Len(sent[r]) = 3
        /\ sent[r][2] # sent[r][1]
        /\ inflight[r] = 1

\* C7: every response of GET /api/v0/teams is the list of a response of
\* GET /api/v0/teams/j1 followed by the list of a response of
\* GET /api/v0/teams/j2: three records, two and one.
C7_TeamsIsJ1ThenJ2 ==
    \A i, j, k \in DOMAIN getLog :
        ( /\ getLog[i].route = "/api/v0/teams"
          /\ getLog[j].route = "/api/v0/teams/j1"
          /\ getLog[k].route = "/api/v0/teams/j2" ) =>
            /\ getLog[i].body = getLog[j].body \o getLog[k].body
            /\ Len(getLog[i].body) = 3
            /\ Len(getLog[j].body) = 2
            /\ Len(getLog[k].body) = 1
            /\ getLog[i].status = 200
\* The three routes were each requested, /api/v0/teams twice.
C7_Witness ==
    /\ Len(getLog) = 4
    /\ getLog[1].route = "/api/v0/teams"
    /\ getLog[2].route = "/api/v0/teams/j2"
    /\ getLog[3].route = "/api/v0/teams/j1"
    /\ getLog[4].route = "/api/v0/teams"

\* The outcome and the number of outbound calls of the chain run on its own
\* from step k with payload d, the remaining calls being answered by rs.
RECURSIVE RunAlone(_, _, _)
RunAlone(d, rs, k) ==
    IF ~Validate(d)
    THEN [out |-> Failure("ValidationError", StatusBadRequest), calls |-> k - 1]
    ELSE IF rs = <<>>
    THEN [out |-> NoOutcome, calls |-> k]
    ELSE LET x == Head(rs) IN
         IF x.kind = "send_error"
         THEN [out |-> Failure("SendRequestError", StatusUnspecified), calls |-> k]
         ELSE IF x.kind = "chunk_error"
         THEN [out |-> Failure("PayloadError", StatusUnspecified), calls |-> k]
         ELSE IF ~IsEnvelope(x.body)
         THEN [out |-> Failure("panic", StatusUnspecified), calls |-> k]
         ELSE IF k = ChainSteps
         THEN [out |-> [kind |-> "Ok", status |-> StatusOk,
                        body |-> ToJson(EnvelopeJson(x.body))], calls |-> k]
         ELSE RunAlone(EnvelopeJson(x.body), Tail(rs), k + 1)

\* C8: under every interleaving, the outcome of a finished request and the
\* number of its outbound calls are those of the chain run on its own with
\* the request's initial payload and the responses to its own calls.
C8_NoInterference ==
    \A r \in Requests :
        Terminal(r) =>
            /\ outcome[r] = RunAlone(initial[r], resps[r], 1).out
            /\ Len(sent[r]) = RunAlone(initial[r], resps[r], 1).calls
\* Two finished requests with the same initial payload and different
\* outcomes, one of them after three calls.
C8_Witness ==
    \E r, q \in Requests :
        /\ r # q
        /\ Terminal(r) /\ Terminal(q)
        /\ initial[r] = initial[q]
        /\ outcome[r].kind = "Ok"
        /\ outcome[q].kind = "PayloadError"
        /\ Len(sent[q]) = 2

\* C9: while a response is read the buffer followed by the unread parts is
\* the body in arrival order and nothing of it was parsed; every buffer
\* parsed is the whole body of its response; and a response whose read
\* failed was never parsed and is the request's last, the request having
\* returned an error.
C9_ParseOnlyWholeBody ==
    \A r \in Requests :
        /\ Len(parsed[r]) <= Len(resps[r])
        /\ (pc[r] = "read") =>
              /\ Len(parsed[r]) = Len(resps[r]) - 1
              /\ body[r] \o wire[r] = resps[r][Len(resps[r])].body
        /\ \A i \in DOMAIN parsed[r] :
              /\ resps[r][i].kind = "body"
              /\ parsed[r][i] = resps[r][i].body
        /\ \A i \in DOMAIN resps[r] :
              resps[r][i].kind = "chunk_error" =>
                  /\ Len(parsed[r]) = i - 1
                  /\ i = Len(resps[r])
                  /\ Len(sent[r]) = i
                  /\ pc[r] = "error"
\* A request that parsed two whole bodies of three parts and whose third
\* read failed.
C9_Witness ==
    \E r \in Requests :
        /\ Len(parsed[r]) = 2
        /\ Len(parsed[r][1]) = 3
        /\ Len(parsed[r][2]) = 3
        /\ Len(resps[r]) = 3
        /\ resps[r][3].kind = "chunk_error"

\* C10: a request whose task can take no further step has reached Done with
\* the payload of its third step or has returned an error; and no request
\* validates or posts more than three times, step k of a request being its
\* k-th validation and its k-th call.
C10_TerminatesWithoutRetry ==
    \A r \in Active :
        /\ (ENABLED Step(r)) \/ pc[r] \in {"done", "error"}
        /\ Len(checked[r]) <= 3
        /\ Len(sent[r]) <= 3
        /\ step[r] \in 1..3
        /\ Len(checked[r]) \in {step[r] - 1, step[r]}
        /\ Len(sent[r]) <= Len(checked[r])
        /\ pc[r] = "done" =>
              /\ Len(parsed[r]) = 3
              /\ outcome[r].body = ToJson(EnvelopeJson(parsed[r][3]))

====
